---- MODULE Spec2Model ----
(***************************************************************************)
(* Speech preprocessing pipeline: the adaptive noise gate                  *)
(* (prepro_noisegate_equalizer.py), the overlap-add windowing stage        *)
(* (prepro_window.py) and the batch driver (preprocessing.py,              *)
(* prepro_audioseparator.py).                                              *)
(*                                                                         *)
(* Numbers.  Floating-point values are modelled as exact rationals         *)
(* <<n, d>> in lowest terms with d > 0, extended with the IEEE specials    *)
(* NaN = <<0, 0>>, +Inf = <<1, 0>> and -Inf = <<-1, 0>>.  Rounding error   *)
(* is not modelled.  Arrays are functions over 0 .. n-1, as in the source. *)
(*                                                                         *)
(* Square roots.  chunk_rms = sqrt(mean(chunk^2)) and                      *)
(* threshold = sqrt(noise_mean) * threshold_ratio are carried by their     *)
(* squares (chunk_ms, threshold2).  For threshold_ratio >= 0 both roots    *)
(* are non-negative, so  chunk_rms > threshold  iff  chunk_ms > threshold2 *)
(* and (chunk_rms / threshold)^2 = chunk_ms / threshold2; sqrt(NaN) = NaN. *)
(***************************************************************************)
EXTENDS Integers, Sequences, FiniteSets, TLC

(* ------------------------------ bounds -------------------------------- *)

\* longest audio buffer handed to dynamic_noise_reduction
MaxLen == 5
\* the sample alphabet is {-1, 0, MaxAmp}
MaxAmp == 2
\* periodogram values are drawn from 0 .. MaxPow
MaxPow == 1

(* ------------------------- program constants -------------------------- *)

\* chunk_duration = 0.025 s, in milliseconds
ChunkDurationMs == 25
\* overlap_ratio = 0.5, as OverlapNum / OverlapDen
OverlapNum == 1
OverlapDen == 2
\* search_width default of get_indices_around_peak
DefaultSearchWidth == 1000
\* 1e-8 = 1 / EpsDen, the floor of the overlap-add normalisation
EpsDen == 100000000

\* sample rates: 0.025 * 150 = 3.75 and 0.025 * 160 = 4.0
SampleRates == {150, 160}
\* overlap ratios tried: the default 1/2, and 3/4
OverlapRatios == {<<OverlapNum, OverlapDen>>, <<3, 4>>}
\* threshold_ratio values tried (default 2.0)
ThresholdRatios == {1, 2}
Samples == {-1, 0, MaxAmp}

(* ------------------------- extended rationals ------------------------- *)

Abs(x) == IF x < 0 THEN -x ELSE x

Sgn(x) == IF x < 0 THEN -1 ELSE IF x > 0 THEN 1 ELSE 0

RECURSIVE GCD(_, _)
GCD(a, b) == IF b = 0 THEN a ELSE GCD(b, a % b)

NaN == <<0, 0>>

Rat(n, d) ==
    IF d = 0 THEN <<Sgn(n), 0>>
    ELSE LET g == GCD(Abs(n), Abs(d))
         IN  <<Sgn(d) * (n \div g), Abs(d) \div g>>

IsNaN(a) == a = NaN

IsFinite(a) == a[2] # 0

RMul(a, b) ==
    IF IsFinite(a) /\ IsFinite(b) THEN Rat(a[1] * b[1], a[2] * b[2])
    ELSE <<Sgn(a[1]) * Sgn(b[1]), 0>>

RAdd(a, b) ==
    IF IsFinite(a) /\ IsFinite(b) THEN Rat(a[1] * b[2] + b[1] * a[2], a[2] * b[2])
    ELSE IF IsNaN(a) \/ IsNaN(b) THEN NaN
    ELSE IF ~IsFinite(a) /\ ~IsFinite(b) /\ a # b THEN NaN
    ELSE IF IsFinite(a) THEN b ELSE a

RDiv(a, b) ==
    IF IsNaN(a) \/ IsNaN(b) THEN NaN
    ELSE IF IsFinite(a) /\ IsFinite(b) THEN Rat(a[1] * b[2], a[2] * b[1])
    ELSE IF IsFinite(a) THEN <<0, 1>>
    ELSE IF IsFinite(b) THEN <<a[1] * (IF b[1] < 0 THEN -1 ELSE 1), 0>>
    ELSE NaN

\* a > b; any comparison with NaN is false
RGt(a, b) ==
    IF IsNaN(a) \/ IsNaN(b) THEN FALSE
    ELSE IF IsFinite(a) /\ IsFinite(b) THEN a[1] * b[2] > b[1] * a[2]
    ELSE IF IsFinite(a) THEN b[1] < 0
    ELSE IF IsFinite(b) THEN a[1] > 0
    ELSE a[1] > b[1]

RLe(a, b) == ~IsNaN(a) /\ ~IsNaN(b) /\ ~RGt(a, b)

RAbs(a) == <<Abs(a[1]), a[2]>>

\* np.maximum(a, b): NaN propagates
RMax(a, b) == IF IsNaN(a) \/ IsNaN(b) THEN NaN ELSE IF RGt(b, a) THEN b ELSE a

(* ------------------------------ arrays -------------------------------- *)

ALen(a) == Cardinality(DOMAIN a)

Zeros(n) == [j \in 0 .. n - 1 |-> <<0, 1>>]

RECURSIVE SumTo(_, _)
SumTo(a, n) == IF n = 0 THEN 0 ELSE a[n - 1] + SumTo(a, n - 1)

\* np.argmax: the first index of the maximum
ArgMax(a) ==
    CHOOSE k \in DOMAIN a :
        /\ \A m \in DOMAIN a : a[m] <= a[k]
        /\ \A m \in DOMAIN a : m < k => a[m] < a[k]

\* k-th smallest (k >= 1) of the values a[i], i in idx
KthSmallest(a, idx, k) ==
    CHOOSE v \in {a[i] : i \in idx} :
        /\ Cardinality({i \in idx : a[i] < v}) < k
        /\ Cardinality({i \in idx : a[i] <= v}) >= k

\* np.median(a[idx]): NaN on an empty selection, the mean of the two middle
\* values on an even count
Median(a, idx) ==
    LET n == Cardinality(idx)
    IN  IF n = 0 THEN NaN
        ELSE IF n % 2 = 1 THEN Rat(KthSmallest(a, idx, (n + 1) \div 2), 1)
        ELSE Rat(KthSmallest(a, idx, n \div 2) + KthSmallest(a, idx, n \div 2 + 1), 2)

(* ----------------------- get_indices_around_peak ---------------------- *)

RECURSIVE ForwardWalk(_, _, _, _, _)
ForwardWalk(arr, peak_index, search_width, i, cur_val) ==
    IF i >= search_width THEN {}
    ELSE LET new_bin == peak_index + i
         IN  IF new_bin >= ALen(arr) THEN {}
             ELSE IF arr[new_bin] > cur_val THEN {}
             ELSE {new_bin} \cup
                  ForwardWalk(arr, peak_index, search_width, i + 1, arr[new_bin])

RECURSIVE BackwardWalk(_, _, _, _, _)
BackwardWalk(arr, peak_index, search_width, i, cur_val) ==
    IF i >= search_width THEN {}
    ELSE LET new_bin == peak_index - i
         IN  IF new_bin < 0 THEN {}
             ELSE IF arr[new_bin] > cur_val THEN {}
             ELSE {new_bin} \cup
                  BackwardWalk(arr, peak_index, search_width, i + 1, arr[new_bin])

\* the walks with cur_val never updated: every bin is compared with the peak
RECURSIVE StaleForwardWalk(_, _, _, _)
StaleForwardWalk(arr, peak_index, search_width, i) ==
    IF i >= search_width \/ peak_index + i >= ALen(arr) THEN {}
    ELSE IF arr[peak_index + i] > arr[peak_index] THEN {}
    ELSE {peak_index + i} \cup StaleForwardWalk(arr, peak_index, search_width, i + 1)

RECURSIVE StaleBackwardWalk(_, _, _, _)
StaleBackwardWalk(arr, peak_index, search_width, i) ==
    IF i >= search_width \/ peak_index - i < 0 THEN {}
    ELSE IF arr[peak_index - i] > arr[peak_index] THEN {}
    ELSE {peak_index - i} \cup StaleBackwardWalk(arr, peak_index, search_width, i + 1)

StaleIndicesAroundPeak(arr, peak_index, search_width) ==
    StaleForwardWalk(arr, peak_index, search_width, 0)
        \cup StaleBackwardWalk(arr, peak_index, search_width, 0)

get_indices_around_peak(arr, peak_index, search_width) ==
    ForwardWalk(arr, peak_index, search_width, 0, arr[peak_index])
        \cup BackwardWalk(arr, peak_index, search_width, 0, arr[peak_index])

(* ----------------------- dynamic_noise_reduction ----------------------- *)

VARIABLES
    audio,            \* the input buffer
    sr,               \* sample rate
    overlap_ratio,    \* <<num, den>>
    threshold_ratio,
    pc,               \* position in dynamic_noise_reduction
    chunk_size,
    hop_size,
    n_frames,         \* frames.shape[1]
    i,                \* loop index
    processed_audio,
    gain_envelope,
    chunk_ms,         \* chunk_rms squared, of the frame last processed
    threshold2,       \* threshold squared, of the frame last processed
    gains,            \* the gain of every frame processed so far
    result,           \* the returned array
    status            \* "running", "returned" or "raised"

\* a call of get_indices_around_peak
VARIABLES
    arr,
    peak_index,
    search_width,
    peak_bins,        \* the returned index set
    peak_pc

\* a call of process_with_ola
VARIABLES
    ola_audio,
    window_size,
    hop_length,
    window_type,
    ola_i,            \* the loop variable of process_with_ola
    output,
    norm,
    ola_pc

\* a run of process_audio_files
VARIABLES
    input_exists,     \* input_path.exists()
    dir_files,        \* the files of the input directory
    wav_files,        \* the selected files, in processing order
    file_idx,         \* position of the for loop in wav_files
    outputs,          \* the output files written
    succeeded,        \* files for which process_single_file returned True
    error_log,        \* files logged as failed (process_single_file returned False)
    batch_pc

dnrVars == <<audio, sr, overlap_ratio, threshold_ratio, pc, chunk_size, hop_size,
             n_frames, i, processed_audio, gain_envelope, chunk_ms, threshold2,
             gains, result, status>>

peakVars == <<arr, peak_index, search_width, peak_bins, peak_pc>>

olaVars == <<ola_audio, window_size, hop_length, window_type, ola_i, output, norm,
             ola_pc>>

batchVars == <<input_exists, dir_files, wav_files, file_idx, outputs, succeeded,
               error_log, batch_pc>>

vars == <<dnrVars, peakVars, olaVars, batchVars>>

\* the components not running under a specification stay as they are
DnrIdle ==
    /\ audio = << >> /\ sr = 0 /\ overlap_ratio = <<0, 1>> /\ threshold_ratio = 0
    /\ pc = "idle" /\ chunk_size = 0 /\ hop_size = 0 /\ n_frames = 0 /\ i = 0
    /\ processed_audio = << >> /\ gain_envelope = << >> /\ chunk_ms = NaN
    /\ threshold2 = NaN /\ gains = << >> /\ result = << >> /\ status = "idle"

PeakIdle ==
    /\ arr = << >> /\ peak_index = 0 /\ search_width = 0 /\ peak_bins = {}
    /\ peak_pc = "idle"

OlaIdle ==
    /\ ola_audio = << >> /\ window_size = 0 /\ hop_length = 0 /\ window_type = "idle"
    /\ ola_i = 0 /\ output = << >> /\ norm = << >> /\ ola_pc = "idle"

BatchIdle ==
    /\ input_exists = FALSE /\ dir_files = {} /\ wav_files = << >> /\ file_idx = 0
    /\ outputs = {} /\ succeeded = {} /\ error_log = {} /\ batch_pc = "idle"

\* round(n / d) as Python rounds: to nearest, ties to even (n >= 0, d > 0)
RoundHalfEven(n, d) ==
    LET q == n \div d
        r == n % d
    IN  IF 2 * r < d THEN q
        ELSE IF 2 * r > d THEN q + 1
        ELSE IF q % 2 = 0 THEN q ELSE q + 1

\* int(n / d): truncation (n >= 0, d > 0)
ToInt(n, d) == n \div d

\* chunk_size = int(chunk_duration * sr)
ChunkSize(rate) == ToInt(ChunkDurationMs * rate, 1000)

\* hop_size = int(chunk_size * (1 - overlap_ratio))
HopSize(size, ov) == ToInt(size * (ov[2] - ov[1]), ov[2])

\* np.hanning(M)[n] = 0.5 - 0.5 * cos(2 * pi * n / (M - 1)), for the sizes used
hanning(M) ==
    CASE M = 1 -> [n \in 0 .. 0 |-> <<1, 1>>]
      [] M = 2 -> [n \in 0 .. 1 |-> <<0, 1>>]
      [] M = 3 -> [n \in 0 .. 2 |-> IF n = 1 THEN <<1, 1>> ELSE <<0, 1>>]
      [] M = 4 -> [n \in 0 .. 3 |-> IF n \in {1, 2} THEN <<3, 4>> ELSE <<0, 1>>]
      [] M = 5 -> [n \in 0 .. 4 |-> IF n = 2 THEN <<1, 1>>
                                    ELSE IF n \in {1, 3} THEN <<1, 2>> ELSE <<0, 1>>]

\* frames[:, k] of librosa.util.frame
Chunk(k) == [n \in 0 .. chunk_size - 1 |-> audio[k * hop_size + n]]

IsConstant(chunk) == \A m, n \in DOMAIN chunk : chunk[m] = chunk[n]

\* scipy.signal.periodogram(chunk, fs, window=('kaiser', 38)): a one-sided power
\* spectrum of len(chunk) // 2 + 1 non-negative bins.  The mean is removed first
\* (detrend='constant') and the Kaiser weights are positive, so the spectrum is
\* all zero exactly when the chunk is constant.  Its values are otherwise left
\* open, in abstract power units 0 .. MaxPow.
Periodogram(chunk) ==
    LET bins == 0 .. (ALen(chunk) \div 2)
    IN  IF IsConstant(chunk) THEN {[k \in bins |-> 0]}
        ELSE {ps \in [bins -> 0 .. MaxPow] : \E k \in bins : ps[k] > 0}

\* noise_prepared = copy(ps); noise_prepared[fund_indices] = 0;
\* noise_mean = np.median(noise_prepared[noise_prepared != 0])
NoiseMean(ps) ==
    LET fund_bin == ArgMax(ps)
        fund_indices == get_indices_around_peak(ps, fund_bin, DefaultSearchWidth)
        noise_prepared == [k \in DOMAIN ps |-> IF k \in fund_indices THEN 0 ELSE ps[k]]
    IN  Median(noise_prepared, {k \in DOMAIN ps : noise_prepared[k] # 0})

\* np.mean(chunk ** 2)
MeanSquare(chunk) ==
    Rat(SumTo([n \in DOMAIN chunk |-> chunk[n] * chunk[n]], ALen(chunk)), ALen(chunk))

\* (noise_floor * threshold_ratio) ** 2
Threshold2(noise_mean, ratio) == RMul(noise_mean, Rat(ratio * ratio, 1))

\* the gate without its pass-through branch
UngatedGain(ms, thr2) == RDiv(ms, thr2)

\* if chunk_rms > threshold: gain = 1.0  else: gain = (chunk_rms / threshold) ** 2
Gain(ms, thr2) == IF RGt(ms, thr2) THEN <<1, 1>> ELSE RDiv(ms, thr2)

\* the overlap-add sum returned without its normalisation
Unnormalized(p, g) == p

\* processed_audio / np.maximum(gain_envelope, 1e-8)
Normalize(p, g) == [j \in DOMAIN p |-> RDiv(p[j], RMax(g[j], <<1, EpsDen>>))]

DnrInit ==
    /\ audio \in UNION {[0 .. n - 1 -> Samples] : n \in 0 .. MaxLen}
    /\ sr \in SampleRates
    /\ overlap_ratio \in OverlapRatios
    /\ threshold_ratio \in ThresholdRatios
    /\ pc = "sizes"
    /\ chunk_size = 0
    /\ hop_size = 0
    /\ n_frames = 0
    /\ i = 0
    /\ processed_audio = << >>
    /\ gain_envelope = << >>
    /\ chunk_ms = NaN
    /\ threshold2 = NaN
    /\ gains = << >>
    /\ result = << >>
    /\ status = "running"

\* lines 36-37
ComputeSizes ==
    /\ pc = "sizes"
    /\ chunk_size' = ChunkSize(sr)
    /\ hop_size' = HopSize(ChunkSize(sr), overlap_ratio)
    /\ pc' = "frame"
    /\ UNCHANGED <<audio, sr, overlap_ratio, threshold_ratio, n_frames, i,
                   processed_audio, gain_envelope, chunk_ms, threshold2, gains,
                   result, status>>
    /\ UNCHANGED <<peakVars, olaVars, batchVars>>

\* lines 40-45: librosa.util.frame raises ParameterError when the input is
\* shorter than frame_length or hop_length < 1; the exception leaves the function
FrameSignal ==
    /\ pc = "frame"
    /\ IF ALen(audio) < chunk_size \/ hop_size < 1
       THEN /\ status' = "raised"
            /\ pc' = "done"
            /\ UNCHANGED <<n_frames, processed_audio, gain_envelope>>
       ELSE /\ n_frames' = 1 + (ALen(audio) - chunk_size) \div hop_size
            /\ processed_audio' = Zeros(ALen(audio))
            /\ gain_envelope' = Zeros(ALen(audio))
            /\ pc' = "loop"
            /\ UNCHANGED status
    /\ UNCHANGED <<audio, sr, overlap_ratio, threshold_ratio, chunk_size, hop_size,
                   i, chunk_ms, threshold2, gains, result>>
    /\ UNCHANGED <<peakVars, olaVars, batchVars>>

\* lines 47-82: one iteration of the frame loop
ProcessFrame ==
    /\ pc = "loop"
    /\ i < n_frames
    /\ \E chunk \in {Chunk(i)} :
       \E ps \in Periodogram(chunk) :
       \E ms \in {MeanSquare(chunk)} :
       \E thr2 \in {Threshold2(NoiseMean(ps), threshold_ratio)} :
       \E gain \in {Gain(ms, thr2)} :
       \E w \in {hanning(chunk_size)} :
         LET start_idx == i * hop_size
             end_idx == start_idx + chunk_size
         IN  /\ chunk_ms' = ms
             /\ threshold2' = thr2
             /\ gains' = Append(gains, gain)
             /\ processed_audio' =
                    [j \in DOMAIN processed_audio |->
                        IF start_idx <= j /\ j < end_idx
                        THEN RAdd(processed_audio[j],
                                  RMul(RMul(Rat(chunk[j - start_idx], 1), gain),
                                       w[j - start_idx]))
                        ELSE processed_audio[j]]
             /\ gain_envelope' =
                    [j \in DOMAIN gain_envelope |->
                        IF start_idx <= j /\ j < end_idx
                        THEN RAdd(gain_envelope[j], w[j - start_idx])
                        ELSE gain_envelope[j]]
    /\ i' = i + 1
    /\ UNCHANGED <<audio, sr, overlap_ratio, threshold_ratio, pc, chunk_size,
                   hop_size, n_frames, result, status>>
    /\ UNCHANGED <<peakVars, olaVars, batchVars>>

\* lines 85-87
NormalizeAndReturn ==
    /\ pc = "loop"
    /\ i = n_frames
    /\ result' = Normalize(processed_audio, gain_envelope)
    /\ status' = "returned"
    /\ pc' = "done"
    /\ UNCHANGED <<audio, sr, overlap_ratio, threshold_ratio, chunk_size, hop_size,
                   n_frames, i, processed_audio, gain_envelope, chunk_ms, threshold2,
                   gains>>
    /\ UNCHANGED <<peakVars, olaVars, batchVars>>

Next == ComputeSizes \/ FrameSignal \/ ProcessFrame \/ NormalizeAndReturn

Init == DnrInit /\ PeakIdle /\ OlaIdle /\ BatchIdle

Spec == Init /\ [][Next]_vars

(* ------------------ properties of dynamic_noise_reduction ------------- *)

Zero == <<0, 1>>

One == <<1, 1>>

\* the gain of the frame last processed
LastGain == gains[Len(gains)]

RECURSIVE SumSquares(_, _)
SumSquares(a, n) ==
    IF n = 0 THEN Zero ELSE RAdd(RMul(a[n - 1], a[n - 1]), SumSquares(a, n - 1))

\* C2: every sample of the returned array is a finite number (no NaN, no Inf),
\* whatever the frames hold.
C2_OutputFinite ==
    status = "returned" => \A j \in DOMAIN result : IsFinite(result[j])

\* C3: a frame whose threshold is zero or undefined (no non-zero bin is left
\* after masking the fundamental's neighbourhood) gets the gain 1.0 exactly.
C3_DegenerateThresholdPassesThrough ==
    (Len(gains) > 0 /\ (IsNaN(threshold2) \/ threshold2 = Zero)) => LastGain = One

\* C4: dynamic_noise_reduction returns normally, with an output as long as the
\* input, for every input, a signal shorter than one frame included.
C4_ReturnsSameLength ==
    pc = "done" => (status = "returned" /\ ALen(result) = ALen(audio))

\* frame energies the gate is compared over: k / 4 for k up to 4 * MaxAmp^2
EnergyGrid == {Rat(k, 4) : k \in 0 .. 4 * MaxAmp * MaxAmp}

\* C6: for a frame whose threshold is finite and positive the gain lies in [0, 1],
\* is 1.0 when chunk_rms > threshold and (chunk_rms / threshold)^2 otherwise, is
\* 1.0 at chunk_rms = threshold, and is non-decreasing in chunk_rms.
C6_GateRule ==
    (Len(gains) > 0 /\ IsFinite(threshold2) /\ RGt(threshold2, Zero)) =>
        /\ RLe(Zero, LastGain) /\ RLe(LastGain, One)
        /\ RGt(chunk_ms, threshold2) => LastGain = One
        /\ RLe(chunk_ms, threshold2) => RMul(LastGain, threshold2) = chunk_ms
        /\ chunk_ms = threshold2 => LastGain = One
        /\ \A e \in EnergyGrid :
             /\ RLe(chunk_ms, e) => RLe(LastGain, Gain(e, threshold2))
             /\ RLe(e, chunk_ms) => RLe(Gain(e, threshold2), LastGain)

\* a frame whose energy equals its (finite, positive) threshold exactly
C6_FrameAtThreshold ==
    /\ Len(gains) > 0
    /\ IsFinite(threshold2) /\ RGt(threshold2, Zero)
    /\ chunk_ms = threshold2
    /\ LastGain = One

\* C8 as stated: frame_length and hop_length are rounded to the nearest integer.
C8_SizesRounded ==
    pc \in {"frame", "loop", "done"} =>
        /\ chunk_size = RoundHalfEven(ChunkDurationMs * sr, 1000)
        /\ hop_size = RoundHalfEven(chunk_size * (overlap_ratio[2] - overlap_ratio[1]),
                                    overlap_ratio[2])

\* C8 as amended: frame_length and hop_length are the products truncated to an
\* integer: chunk_size <= chunk_duration * sr < chunk_size + 1 and
\* hop_size <= chunk_size * (1 - overlap_ratio) < hop_size + 1.
C8_SizesTruncated ==
    pc \in {"frame", "loop", "done"} =>
        /\ chunk_size * 1000 <= ChunkDurationMs * sr
        /\ ChunkDurationMs * sr < (chunk_size + 1) * 1000
        /\ hop_size * overlap_ratio[2]
              <= chunk_size * (overlap_ratio[2] - overlap_ratio[1])
        /\ chunk_size * (overlap_ratio[2] - overlap_ratio[1])
              < (hop_size + 1) * overlap_ratio[2]

\* an odd frame length at 50% overlap: 0.025 * 150 = 3.75 gives 3 and 1.5 gives 1
C8_OddFrameHalfOverlap ==
    /\ pc \in {"frame", "loop", "done"}
    /\ sr = 150 /\ overlap_ratio = <<1, 2>>
    /\ chunk_size = 3 /\ hop_size = 1

\* C9: when the signal holds at least one frame and every frame's gain is
\* defined, no output sample exceeds its input sample in magnitude, so the
\* output's energy does not exceed the input's.
C9_NeverAmplifies ==
    (status = "returned" /\ \A k \in DOMAIN gains : IsFinite(gains[k])) =>
        /\ \A j \in DOMAIN result : RLe(RAbs(result[j]), Rat(Abs(audio[j]), 1))
        /\ RLe(SumSquares(result, ALen(result)),
               SumSquares([j \in DOMAIN audio |-> Rat(audio[j], 1)], ALen(audio)))

\* two overlapping frames with defined gains, one sample attenuated but kept
C9_AttenuatedSample ==
    /\ status = "returned"
    /\ Len(gains) >= 2
    /\ \A k \in DOMAIN gains : IsFinite(gains[k])
    /\ \E j \in DOMAIN result :
         /\ RGt(RAbs(result[j]), Zero)
         /\ RGt(Rat(Abs(audio[j]), 1), RAbs(result[j]))

(* --------------------- a call of get_indices_around_peak -------------- *)

\* longest spectrum handed to get_indices_around_peak
MaxBins == 4
\* its values are drawn from 0 .. MaxVal
MaxVal == 2
\* search widths tried: 1 .. MaxWidth, and the default
MaxWidth == 2

PeakInit ==
    /\ arr \in UNION {[0 .. n - 1 -> 0 .. MaxVal] : n \in 1 .. MaxBins}
    /\ peak_index \in 0 .. MaxBins - 1
    /\ peak_index < ALen(arr)
    /\ search_width \in (1 .. MaxWidth) \cup {DefaultSearchWidth}
    /\ peak_bins = {}
    /\ peak_pc = "call"

\* lines 101-128
LocateNeighborhood ==
    /\ peak_pc = "call"
    /\ peak_bins' = get_indices_around_peak(arr, peak_index, search_width)
    /\ peak_pc' = "done"
    /\ UNCHANGED <<arr, peak_index, search_width>>
    /\ UNCHANGED <<dnrVars, olaVars, batchVars>>

NextPeak == LocateNeighborhood

InitPeak == PeakInit /\ DnrIdle /\ OlaIdle /\ BatchIdle

SpecPeak == InitPeak /\ [][NextPeak]_vars

\* C5: the returned set contains the peak, is a contiguous range of valid
\* indices, is non-increasing in value away from the peak on each side (ties
\* allowed), and each side ends at the first strict increase, at the array
\* boundary or at the search_width bound.
C5_MonotoneSkirt ==
    peak_pc = "done" =>
        /\ peak_index \in peak_bins
        /\ peak_bins \subseteq DOMAIN arr
        /\ \A a, b \in peak_bins : \A k \in a .. b : k \in peak_bins
        /\ \A a, b \in peak_bins :
             /\ (peak_index <= a /\ a < b) => arr[b] <= arr[a]
             /\ (b < a /\ a <= peak_index) => arr[b] <= arr[a]
        /\ \A hi \in peak_bins :
             (hi + 1 \notin peak_bins) =>
                 \/ hi + 1 = ALen(arr)
                 \/ arr[hi + 1] > arr[hi]
                 \/ hi - peak_index = search_width - 1
        /\ \A lo \in peak_bins :
             (lo - 1 \notin peak_bins) =>
                 \/ lo = 0
                 \/ arr[lo - 1] > arr[lo]
                 \/ peak_index - lo = search_width - 1

\* a skirt with bins on both sides of the peak, a tie among them, and one side
\* stopped by a strict increase inside the array
C5_SkirtWithTieAndRise ==
    /\ peak_pc = "done"
    /\ peak_index - 1 \in peak_bins /\ peak_index + 1 \in peak_bins
    /\ \E a \in peak_bins : a # peak_index /\ arr[a] = arr[peak_index]
    /\ \E hi \in peak_bins :
         hi + 1 \in DOMAIN arr /\ hi + 1 \notin peak_bins /\ arr[hi + 1] > arr[hi]

(* ------------------------- process_with_ola --------------------------- *)

\* window sizes tried: 1 .. MaxWindow
MaxWindow == 4
\* the mask threshold 1e-10 is 1 / NormEpsRoot^2
NormEpsRoot == 100000

WindowTypes == {"hamming", "hann", "triang"}

\* scipy.signal.windows.hamming(M)[n] = 0.54 - 0.46 * cos(2 * pi * n / (M - 1))
hamming(M) ==
    CASE M = 1 -> [n \in 0 .. 0 |-> <<1, 1>>]
      [] M = 2 -> [n \in 0 .. 1 |-> <<2, 25>>]
      [] M = 3 -> [n \in 0 .. 2 |-> IF n = 1 THEN <<1, 1>> ELSE <<2, 25>>]
      [] M = 4 -> [n \in 0 .. 3 |-> IF n \in {1, 2} THEN <<77, 100>> ELSE <<2, 25>>]
      [] M = 5 -> [n \in 0 .. 4 |-> IF n = 2 THEN <<1, 1>>
                                    ELSE IF n \in {1, 3} THEN <<27, 50>> ELSE <<2, 25>>]

\* scipy.signal.windows.triang(M)
triang(M) ==
    CASE M = 1 -> [n \in 0 .. 0 |-> <<1, 1>>]
      [] M = 2 -> [n \in 0 .. 1 |-> <<1, 2>>]
      [] M = 3 -> [n \in 0 .. 2 |-> IF n = 1 THEN <<1, 1>> ELSE <<1, 2>>]
      [] M = 4 -> [n \in 0 .. 3 |-> IF n \in {1, 2} THEN <<3, 4>> ELSE <<1, 4>>]
      [] M = 5 -> [n \in 0 .. 4 |-> IF n = 2 THEN <<1, 1>>
                                    ELSE IF n \in {1, 3} THEN <<2, 3>> ELSE <<1, 3>>]

\* lines 36-41; scipy.signal.windows.hann(M) equals np.hanning(M)
Window(type, M) ==
    IF type = "hann" THEN hanning(M)
    ELSE IF type = "hamming" THEN hamming(M)
    ELSE triang(M)

\* norm > 1e-10, with 1e-10 = 1 / NormEpsRoot^2:  n / d > 1 / E^2  iff
\* (d div n) div E < E, for n > 0
ExceedsNormEps(a) ==
    IF IsFinite(a) THEN a[1] > 0 /\ ((a[2] \div a[1]) \div NormEpsRoot) < NormEpsRoot
    ELSE a[1] > 0

OlaInit ==
    /\ ola_audio \in UNION {[0 .. n - 1 -> Samples] : n \in 0 .. MaxLen}
    /\ window_size \in 1 .. MaxWindow
    /\ hop_length \in 1 .. MaxWindow
    /\ hop_length <= window_size
    /\ window_type \in WindowTypes
    /\ ola_i = 0
    /\ output = << >>
    /\ norm = << >>
    /\ ola_pc = "init"

\* lines 31-33
OlaAllocate ==
    /\ ola_pc = "init"
    /\ output' = Zeros(ALen(ola_audio))
    /\ norm' = Zeros(ALen(ola_audio))
    /\ ola_pc' = "loop"
    /\ UNCHANGED <<ola_audio, window_size, hop_length, window_type, ola_i>>
    /\ UNCHANGED <<dnrVars, peakVars, batchVars>>

\* lines 44-56: one iteration of  for i in range(0, len(audio) - window_size,
\* hop_length).  The frame audio[i:i+window_size] is always full here, so the
\* break of line 47 is never taken.
OlaFrame ==
    /\ ola_pc = "loop"
    /\ ola_i < ALen(ola_audio) - window_size
    /\ \E window \in {Window(window_type, window_size)} :
         /\ output' =
                [j \in DOMAIN output |->
                    IF ola_i <= j /\ j < ola_i + window_size
                    THEN RAdd(output[j],
                              RMul(Rat(ola_audio[j], 1), window[j - ola_i]))
                    ELSE output[j]]
         /\ norm' =
                [j \in DOMAIN norm |->
                    IF ola_i <= j /\ j < ola_i + window_size
                    THEN RAdd(norm[j], window[j - ola_i])
                    ELSE norm[j]]
    /\ ola_i' = ola_i + hop_length
    /\ UNCHANGED <<ola_audio, window_size, hop_length, window_type, ola_pc>>
    /\ UNCHANGED <<dnrVars, peakVars, batchVars>>

\* lines 59-62: mask = norm > 1e-10; output[mask] /= norm[mask]; return output
OlaNormalize ==
    /\ ola_pc = "loop"
    /\ ola_i >= ALen(ola_audio) - window_size
    /\ output' =
           [j \in DOMAIN output |->
               IF ExceedsNormEps(norm[j])
               THEN RDiv(output[j], norm[j]) ELSE output[j]]
    /\ ola_pc' = "done"
    /\ UNCHANGED <<ola_audio, window_size, hop_length, window_type, ola_i, norm>>
    /\ UNCHANGED <<dnrVars, peakVars, batchVars>>

NextOla == OlaAllocate \/ OlaFrame \/ OlaNormalize

InitOla == OlaInit /\ DnrIdle /\ PeakIdle /\ BatchIdle

SpecOla == InitOla /\ [][NextOla]_vars

\* C10: every full frame position (a start that is a multiple of hop_length with
\* start + window_size <= len(audio)) is processed and the output equals the
\* input on it; only a tail of fewer than window_size samples may stay zero.
C10_FullFramesRoundTrip ==
    ola_pc = "done" =>
        \A k \in 0 .. MaxLen :
            (k * hop_length + window_size <= ALen(ola_audio)) =>
                \A j \in k * hop_length .. k * hop_length + window_size - 1 :
                    output[j] = Rat(ola_audio[j], 1)

(* ------------------------- process_audio_files ------------------------ *)

\* recording ids in the input directory: 1 .. MaxId
MaxId == 3
\* wav_files = sorted(glob("IS0*.wav"))[:5]
FileLimit == 5

\* A file "<prefix><id>_<sess>[_<take>].wav": is0 says whether the name matches
\* IS0*.wav, take = 0 stands for a stem of two parts.  Path order is the order of
\* the names, here the lexicographic order of (id, sess, take): "." sorts
\* before "_", so a two-part stem precedes its three-part extensions.
MatchingFiles ==
    {[is0 |-> TRUE, id |-> n, sess |-> 1, take |-> t] : n \in 1 .. MaxId, t \in 0 .. 1}

OtherFiles == {[is0 |-> FALSE, id |-> 1, sess |-> 1, take |-> 0]}

PathLess(f, g) ==
    \/ f.id < g.id
    \/ f.id = g.id /\ f.sess < g.sess
    \/ f.id = g.id /\ f.sess = g.sess /\ f.take < g.take

RECURSIVE SortedPaths(_)
SortedPaths(S) ==
    IF S = {} THEN << >>
    ELSE LET first == CHOOSE f \in S : \A g \in S \ {f} : PathLess(f, g)
         IN  <<first>> \o SortedPaths(S \ {first})

\* sorted(list(input_path.glob("IS0*.wav")))[:5]
SelectWavFiles(files) ==
    LET sorted == SortedPaths({f \in files : f.is0})
    IN  SubSeq(sorted, 1, IF Len(sorted) < FileLimit THEN Len(sorted) ELSE FileLimit)

\* base_name = '_'.join(stem.split('_')[:2]); f"{base_name}_cleaned.wav"
OutputName(f) == <<f.id, f.sess>>

\* the ways out of separate_audio: a return, or one of its four raises, each
\* caught by its own  except Exception  and turned into sys.exit(1)
SeparationOutcomes == {"ok", "invalid_input", "missing_input", "tool_failed", "no_vocals"}

BatchInit ==
    /\ input_exists \in BOOLEAN
    /\ dir_files \in SUBSET (MatchingFiles \cup OtherFiles)
    /\ (~input_exists => dir_files = {})
    /\ wav_files = << >>
    /\ file_idx = 0
    /\ outputs = {}
    /\ succeeded = {}
    /\ error_log = {}
    /\ batch_pc = "start"

\* the for loop moves to the next file, or ends
AfterFile == IF file_idx < Len(wav_files) THEN "load" ELSE "done"

\* preprocessing.py lines 95-105: FileNotFoundError leaves process_audio_files
SelectFiles ==
    /\ batch_pc = "start"
    /\ IF ~input_exists
       THEN /\ batch_pc' = "raised"
            /\ UNCHANGED <<wav_files, file_idx>>
       ELSE /\ wav_files' = SelectWavFiles(dir_files)
            /\ file_idx' = 1
            /\ batch_pc' = IF SelectWavFiles(dir_files) = << >> THEN "done" ELSE "load"
    /\ UNCHANGED <<input_exists, dir_files, outputs, succeeded, error_log>>
    /\ UNCHANGED <<dnrVars, peakVars, olaVars>>

\* preprocessing.py line 52: librosa.load; an exception is caught at line 74,
\* logged, and process_single_file returns False
LoadAudio ==
    /\ batch_pc = "load"
    /\ \E loaded \in BOOLEAN :
         IF loaded
         THEN /\ batch_pc' = "separate"
              /\ UNCHANGED <<file_idx, error_log>>
         ELSE /\ error_log' = error_log \cup {wav_files[file_idx]}
              /\ file_idx' = file_idx + 1
              /\ batch_pc' = AfterFile
    /\ UNCHANGED <<input_exists, dir_files, wav_files, outputs, succeeded>>
    /\ UNCHANGED <<dnrVars, peakVars, olaVars>>

\* preprocessing.py line 55 and prepro_audioseparator.py lines 24-89: every
\* failure inside separate_audio ends in sys.exit(1).  SystemExit is not an
\* Exception, so neither line 74 nor main's handler (line 130) catches it and
\* the interpreter exits.  Which way separate_audio leaves depends on its
\* arguments, the file system and the external tool, and is left open here.
SeparateAudio ==
    /\ batch_pc = "separate"
    /\ \E outcome \in SeparationOutcomes :
         batch_pc' = IF outcome = "ok" THEN "stages" ELSE "exited"
    /\ UNCHANGED <<input_exists, dir_files, wav_files, file_idx, outputs, succeeded,
                   error_log>>
    /\ UNCHANGED <<dnrVars, peakVars, olaVars>>

\* preprocessing.py lines 58-76: noise reduction, bandpass, pre-emphasis,
\* windowing and sf.write; an exception in any of them is caught and logged
RunStages ==
    /\ batch_pc = "stages"
    /\ \E written \in BOOLEAN :
         IF written
         THEN /\ outputs' = outputs \cup {OutputName(wav_files[file_idx])}
              /\ succeeded' = succeeded \cup {wav_files[file_idx]}
              /\ UNCHANGED error_log
         ELSE /\ error_log' = error_log \cup {wav_files[file_idx]}
              /\ UNCHANGED <<outputs, succeeded>>
    /\ file_idx' = file_idx + 1
    /\ batch_pc' = AfterFile
    /\ UNCHANGED <<input_exists, dir_files, wav_files>>
    /\ UNCHANGED <<dnrVars, peakVars, olaVars>>

NextBatch == SelectFiles \/ LoadAudio \/ SeparateAudio \/ RunStages

InitBatch == BatchInit /\ DnrIdle /\ PeakIdle /\ OlaIdle

SpecBatch == InitBatch /\ [][NextBatch]_vars

Selected == {wav_files[k] : k \in DOMAIN wav_files}

\* C1: when the run is over, every selected file has been attempted: it either
\* succeeded or was logged as failed with process_single_file returning False.
\* A failure, of the separation step included, never ends the run early.
C1_FailureConfinedToFile ==
    batch_pc \in {"done", "exited"} => Selected \subseteq (succeeded \cup error_log)

\* C7: the run takes the first FileLimit matching files in sorted order (all of
\* them when fewer match), touches no other file, and leaves one output file of
\* its own, named from the first two parts of the stem, for every selected input
\* that was not logged as failed.
C7_FirstFiveOneOutputEach ==
    batch_pc \in {"done", "exited"} =>
        /\ Selected \subseteq {f \in dir_files : f.is0}
        /\ Len(wav_files) = IF Cardinality({f \in dir_files : f.is0}) < FileLimit
                            THEN Cardinality({f \in dir_files : f.is0})
                            ELSE FileLimit
        /\ \A k \in DOMAIN wav_files : \A m \in DOMAIN wav_files :
               k < m => PathLess(wav_files[k], wav_files[m])
        /\ \A f \in Selected : \A g \in {h \in dir_files : h.is0} \ Selected :
               PathLess(f, g)
        /\ (succeeded \cup error_log) \subseteq Selected
        /\ \A f \in Selected \ error_log : OutputName(f) \in outputs
        /\ Cardinality(outputs) = Cardinality(Selected \ error_log)

====
